--------------------------- MODULE Spec2Model ---------------------------
(***************************************************************************)
(* Model of the licenses_pro crate: offline license keys.  An issuer-side  *)
(* AdminGenerator derives one payload chunk per IV from a seed with        *)
(* truncated SHA-256, adds a 2-byte truncated SHA-256 checksum, and        *)
(* serialises the license as bytes or as dashed base64 text.  The client   *)
(* parses the text and calls verify_license with one known IV, its index   *)
(* and a Blocker.                                                          *)
(*                                                                         *)
(* Bytes are the integers 0..255, byte strings (Vec<u8>, &[u8]) are        *)
(* sequences of bytes, and a String is the sequence of its ASCII codes.    *)
(* SHA-256 (ring::digest) is computed bit for bit, so that the truncated   *)
(* digests the code compares are the ones the crate really produces.       *)
(***************************************************************************)
EXTENDS Integers, Sequences, FiniteSets, TLC

-----------------------------------------------------------------------------
(* SHA-256 (FIPS 180-4).  TLC's integers are 32-bit signed, so a 32-bit    *)
(* word is the pair <<high 16 bits, low 16 bits>>.                         *)

RECURSIVE XorBits(_, _, _, _)
\* a XOR b XOR c on the low n bits
XorBits(a, b, c, n) ==
    IF n = 0 THEN 0
    ELSE ((a + b + c) % 2) + 2 * XorBits(a \div 2, b \div 2, c \div 2, n - 1)

RECURSIVE ChBits(_, _, _, _)
\* (a AND b) XOR (NOT a AND c) on the low n bits
ChBits(a, b, c, n) ==
    IF n = 0 THEN 0
    ELSE (IF a % 2 = 1 THEN b % 2 ELSE c % 2)
         + 2 * ChBits(a \div 2, b \div 2, c \div 2, n - 1)

RECURSIVE MajBits(_, _, _, _)
\* (a AND b) XOR (a AND c) XOR (b AND c) on the low n bits
MajBits(a, b, c, n) ==
    IF n = 0 THEN 0
    ELSE (((a % 2) + (b % 2) + (c % 2)) \div 2)
         + 2 * MajBits(a \div 2, b \div 2, c \div 2, n - 1)

\* The three bitwise functions tabulated on 4-bit operands: entry
\* 256*a + 16*b + c + 1 is the function of the nibbles a, b, c.
XorTab ==
    SubSeq([i \in 1..4096 |->
               XorBits((i - 1) \div 256, ((i - 1) \div 16) % 16, (i - 1) % 16, 4)],
           1, 4096)

ChTab ==
    SubSeq([i \in 1..4096 |->
               ChBits((i - 1) \div 256, ((i - 1) \div 16) % 16, (i - 1) % 16, 4)],
           1, 4096)

MajTab ==
    SubSeq([i \in 1..4096 |->
               MajBits((i - 1) \div 256, ((i - 1) \div 16) % 16, (i - 1) % 16, 4)],
           1, 4096)

\* index into a nibble table of the nibbles of a, b, c at weight d
Ix(a, b, c, d) ==
    256 * ((a \div d) % 16) + 16 * ((b \div d) % 16) + ((c \div d) % 16) + 1

\* a tabulated function applied to 16-bit operands, nibble by nibble
Lookup16(tab, a, b, c) ==
    tab[Ix(a, b, c, 1)] + 16 * tab[Ix(a, b, c, 16)]
    + 256 * tab[Ix(a, b, c, 256)] + 4096 * tab[Ix(a, b, c, 4096)]

Bitwise(tab, a, b, c) == << Lookup16(tab, a[1], b[1], c[1]), Lookup16(tab, a[2], b[2], c[2]) >>

Xor3(a, b, c) == Bitwise(XorTab, a, b, c)

Ch(a, b, c) == Bitwise(ChTab, a, b, c)

Maj(a, b, c) == Bitwise(MajTab, a, b, c)

\* rotate the word w right by n bits, 0 < n < 32
RotR(w, n) ==
    LET h == IF n >= 16 THEN w[2] ELSE w[1]
        l == IF n >= 16 THEN w[1] ELSE w[2]
        k == IF n >= 16 THEN n - 16 ELSE n
        p == 2 ^ k
        q == 2 ^ (16 - k)
    IN  IF k = 0 THEN <<h, l>>
        ELSE << (h \div p) + (l % p) * q, (l \div p) + (h % p) * q >>

\* shift the word w right by n bits, 0 < n < 16
ShR(w, n) ==
    LET p == 2 ^ n
        q == 2 ^ (16 - n)
    IN  << w[1] \div p, (w[2] \div p) + (w[1] % p) * q >>

\* the word with the given sums of high and of low halves, modulo 2^32
Norm(hi, lo) == << (hi + (lo \div (2 ^ 16))) % (2 ^ 16), lo % (2 ^ 16) >>

Add2(a, b) == Norm(a[1] + b[1], a[2] + b[2])

Add4(a, b, c, d) == Norm(a[1] + b[1] + c[1] + d[1], a[2] + b[2] + c[2] + d[2])

Add5(a, b, c, d, e) ==
    Norm(a[1] + b[1] + c[1] + d[1] + e[1], a[2] + b[2] + c[2] + d[2] + e[2])

BSig0(x) == Xor3(RotR(x, 2), RotR(x, 13), RotR(x, 22))

BSig1(x) == Xor3(RotR(x, 6), RotR(x, 11), RotR(x, 25))

SSig0(x) == Xor3(RotR(x, 7), RotR(x, 18), ShR(x, 3))

SSig1(x) == Xor3(RotR(x, 17), RotR(x, 19), ShR(x, 10))

\* round constants
K256 == <<
      <<17034, 12184>>, <<28983, 17553>>, <<46528, 64463>>, <<59829, 56229>>,
      <<14678, 49755>>, <<23025, 4593>>, <<37439, 33444>>, <<43804, 24277>>,
      <<55303, 43672>>, <<4739, 23297>>, <<9265, 34238>>, <<21772, 32195>>,
      <<29374, 23924>>, <<32990, 45566>>, <<39900, 1703>>, <<49563, 61812>>,
      <<58523, 27073>>, <<61374, 18310>>, <<4033, 40390>>, <<9228, 41420>>,
      <<11753, 11375>>, <<19060, 33962>>, <<23728, 43484>>, <<30457, 35034>>,
      <<38974, 20818>>, <<43057, 50797>>, <<45059, 10184>>, <<48985, 32711>>,
      <<50912, 3059>>, <<54695, 37191>>, <<1738, 25425>>, <<5161, 10599>>,
      <<10167, 2693>>, <<11803, 8504>>, <<19756, 28156>>, <<21304, 3347>>,
      <<25866, 29524>>, <<30314, 2747>>, <<33218, 51502>>, <<37490, 11397>>,
      <<41663, 59553>>, <<43034, 26187>>, <<49739, 35696>>, <<51052, 20899>>,
      <<53650, 59417>>, <<54937, 1572>>, <<62478, 13701>>, <<4202, 41072>>,
      <<6564, 49430>>, <<7735, 27656>>, <<10056, 30540>>, <<13488, 48309>>,
      <<14620, 3251>>, <<20184, 43594>>, <<23452, 51791>>, <<26670, 28659>>,
      <<29839, 33518>>, <<30885, 25455>>, <<33992, 30740>>, <<36039, 520>>,
      <<37054, 65530>>, <<42064, 27883>>, <<48889, 41975>>, <<50801, 30962>>
   >>

\* initial hash value
H0 == <<
      <<27145, 58983>>, <<47975, 44677>>, <<15470, 62322>>, <<42319, 62778>>,
      <<20750, 21119>>, <<39685, 26764>>, <<8067, 55723>>, <<23520, 52505>>
   >>

\* digest length in bytes: 32
SHA256_OUTPUT_LEN == 4 * Len(H0)

RECURSIVE BigEndian(_, _)
BigEndian(x, n) ==
    IF n = 0 THEN <<>> ELSE Append(BigEndian(x \div 256, n - 1), x % 256)

\* the message, the byte 0x80, zero bytes up to 56 modulo 64, the bit length
Pad(m) ==
    m \o <<128>> \o [i \in 1..((55 - Len(m)) % 64) |-> 0] \o BigEndian(8 * Len(m), 8)

\* the i-th word (1..16) of the b-th 64-byte block of p
BlockWord(p, b, i) ==
    << p[64 * (b - 1) + 4 * (i - 1) + 1] * 256 + p[64 * (b - 1) + 4 * (i - 1) + 2],
       p[64 * (b - 1) + 4 * (i - 1) + 3] * 256 + p[64 * (b - 1) + 4 * (i - 1) + 4] >>

RECURSIVE Schedule(_, _, _)
\* The message schedule w extended by the words lo..hi.  The range is
\* halved so that the evaluation nests only logarithmically deep; the test
\* on Len(w), never true, makes TLC evaluate the first half before it
\* starts on the second.
Schedule(w, lo, hi) ==
    IF Len(w) < 16 THEN w
    ELSE IF lo = hi
    THEN Append(w, Add4(SSig1(w[lo - 2]), w[lo - 7], SSig0(w[lo - 15]), w[lo - 16]))
    ELSE Schedule(Schedule(w, lo, (lo + hi) \div 2), (lo + hi) \div 2 + 1, hi)

\* the working variables after a round with the temporaries t1 and t2
RoundStep(s, t1, t2) ==
    << Add2(t1, t2), s[1], s[2], s[3], Add2(s[4], t1), s[5], s[6], s[7] >>

\* one round of the compression function on the working variables s = a..h
Round(s, w, t) ==
    RoundStep(s, Add5(s[8], BSig1(s[5]), Ch(s[5], s[6], s[7]), K256[t], w[t]),
              Add2(BSig0(s[1]), Maj(s[1], s[2], s[3])))

RECURSIVE Rounds(_, _, _, _)
\* rounds lo..hi, halved like Schedule
Rounds(s, w, lo, hi) ==
    IF Len(s) # 8 THEN s
    ELSE IF lo = hi THEN Round(s, w, lo)
    ELSE Rounds(Rounds(s, w, lo, (lo + hi) \div 2), w, (lo + hi) \div 2 + 1, hi)

AddState(h, s) ==
    << Add2(h[1], s[1]), Add2(h[2], s[2]), Add2(h[3], s[3]), Add2(h[4], s[4]),
       Add2(h[5], s[5]), Add2(h[6], s[6]), Add2(h[7], s[7]), Add2(h[8], s[8]) >>

\* the hash value after the b-th block of p
Compress(h, p, b) ==
    AddState(h,
        Rounds(h,
               Schedule(<< BlockWord(p, b, 1), BlockWord(p, b, 2), BlockWord(p, b, 3),
                           BlockWord(p, b, 4), BlockWord(p, b, 5), BlockWord(p, b, 6),
                           BlockWord(p, b, 7), BlockWord(p, b, 8), BlockWord(p, b, 9),
                           BlockWord(p, b, 10), BlockWord(p, b, 11), BlockWord(p, b, 12),
                           BlockWord(p, b, 13), BlockWord(p, b, 14), BlockWord(p, b, 15),
                           BlockWord(p, b, 16) >>, 17, 64),
               1, 64))

RECURSIVE Blocks(_, _, _)
Blocks(h, p, b) ==
    IF Len(h) # 8 \/ 64 * (b - 1) >= Len(p) THEN h
    ELSE Blocks(Compress(h, p, b), p, b + 1)

WordBytes(w) == << w[1] \div 256, w[1] % 256, w[2] \div 256, w[2] % 256 >>

DigestBytes(h) ==
    WordBytes(h[1]) \o WordBytes(h[2]) \o WordBytes(h[3]) \o WordBytes(h[4])
    \o WordBytes(h[5]) \o WordBytes(h[6]) \o WordBytes(h[7]) \o WordBytes(h[8])

\* the 32-byte SHA-256 digest of the byte string m
SHA256(m) == DigestBytes(Blocks(H0, Pad(m), 1))

-----------------------------------------------------------------------------
(* lib.rs: the layout constant and the two truncated digests               *)

CHECKSUM_LEN == 2

RECURSIVE concat(_)
\* payload.concat(): the chunks one after the other
concat(chunks) ==
    IF chunks = <<>> THEN <<>> ELSE Head(chunks) \o concat(Tail(chunks))

\* what a call returns when an index or slice bound runs past the end
PANIC == << -1 >>

\* a License value: seed, payload (a sequence of chunks), checksum
NoLicense == [seed |-> <<>>, payload |-> <<>>, checksum |-> <<>>]

\* fault: the checksum leaves the payload out of the hash
generate_checksum_seed_only(seed, payload) ==
    SubSeq(SHA256(seed), 1, CHECKSUM_LEN)

\* the first CHECKSUM_LEN bytes of SHA-256(seed || payload)
generate_checksum(seed, payload) ==
    SubSeq(SHA256(seed \o concat(payload)), 1, CHECKSUM_LEN)

\* fault: the chunk leaves the IV out of the hash
generate_key_chunk_without_iv(iv, seed, chunk_size) ==
    IF chunk_size > SHA256_OUTPUT_LEN THEN PANIC
    ELSE SubSeq(SHA256(seed), 1, chunk_size)

\* the first chunk_size bytes of SHA-256(iv || seed); the slice
\* [..chunk_size] of the 32-byte digest panics when chunk_size > 32
generate_key_chunk(iv, seed, chunk_size) ==
    IF chunk_size > SHA256_OUTPUT_LEN THEN PANIC
    ELSE SubSeq(SHA256(iv \o seed), 1, chunk_size)

-----------------------------------------------------------------------------
(* base64, the STANDARD_NO_PAD engine                                      *)

\* "ABCDEFGHIJKLMNOPQRSTUVWXYZabcdefghijklmnopqrstuvwxyz0123456789+/"
Alphabet ==
    << 65, 66, 67, 68, 69, 70, 71, 72, 73, 74, 75, 76, 77, 78, 79, 80,
       81, 82, 83, 84, 85, 86, 87, 88, 89, 90,
       97, 98, 99, 100, 101, 102, 103, 104, 105, 106, 107, 108, 109, 110,
       111, 112, 113, 114, 115, 116, 117, 118, 119, 120, 121, 122,
       48, 49, 50, 51, 52, 53, 54, 55, 56, 57, 43, 47 >>

RECURSIVE base64_encode(_)
\* 3 bytes give 4 symbols; a last group of 1 or 2 bytes gives 2 or 3
\* symbols and no '=' padding
base64_encode(b) ==
    IF Len(b) = 0 THEN <<>>
    ELSE IF Len(b) = 1
    THEN << Alphabet[(b[1] \div 4) + 1], Alphabet[((b[1] % 4) * 16) + 1] >>
    ELSE IF Len(b) = 2
    THEN << Alphabet[(b[1] \div 4) + 1],
            Alphabet[((b[1] % 4) * 16) + (b[2] \div 16) + 1],
            Alphabet[((b[2] % 16) * 4) + 1] >>
    ELSE << Alphabet[(b[1] \div 4) + 1],
            Alphabet[((b[1] % 4) * 16) + (b[2] \div 16) + 1],
            Alphabet[((b[2] % 16) * 4) + (b[3] \div 64) + 1],
            Alphabet[(b[3] % 64) + 1] >>
         \o base64_encode(SubSeq(b, 4, Len(b)))

\* the 6-bit value of a symbol, -1 for a byte outside the alphabet
\* ('=' and '-' included)
base64_value(c) ==
    IF c >= 65 /\ c <= 90 THEN c - 65
    ELSE IF c >= 97 /\ c <= 122 THEN c - 71
    ELSE IF c >= 48 /\ c <= 57 THEN c + 4
    ELSE IF c = 43 THEN 62
    ELSE IF c = 47 THEN 63
    ELSE -1

RECURSIVE base64_groups(_)
\* the bytes of a sequence of 6-bit values whose length is not 1 modulo 4
base64_groups(v) ==
    IF Len(v) = 0 THEN <<>>
    ELSE IF Len(v) = 2 THEN << (v[1] * 4) + (v[2] \div 16) >>
    ELSE IF Len(v) = 3
    THEN << (v[1] * 4) + (v[2] \div 16), ((v[2] % 16) * 16) + (v[3] \div 4) >>
    ELSE << (v[1] * 4) + (v[2] \div 16), ((v[2] % 16) * 16) + (v[3] \div 4),
            ((v[3] % 4) * 64) + v[4] >>
         \o base64_groups(SubSeq(v, 5, Len(v)))

\* Engine::decode: Err on a byte outside the alphabet, on a length of
\* 1 modulo 4, and on a last symbol with non-zero unused bits
base64_decode(t) ==
    LET v == [i \in 1..Len(t) |-> base64_value(t[i])]
        n == Len(t)
    IN  IF \E i \in 1..n : v[i] = -1 THEN [ok |-> FALSE, bytes |-> <<>>]
        ELSE IF n % 4 = 1 THEN [ok |-> FALSE, bytes |-> <<>>]
        ELSE IF n % 4 = 2 /\ v[n] % 16 # 0 THEN [ok |-> FALSE, bytes |-> <<>>]
        ELSE IF n % 4 = 3 /\ v[n] % 4 # 0 THEN [ok |-> FALSE, bytes |-> <<>>]
        ELSE [ok |-> TRUE, bytes |-> base64_groups(v)]

-----------------------------------------------------------------------------
(* blockers.rs                                                             *)

NoBlock == [kind |-> "NoBlock", list |-> <<>>, response |-> <<>>]

BuiltinBlocklist(list) ==
    [kind |-> "BuiltinBlocklist", list |-> list, response |-> <<>>]

\* A RemoteFileBlocker together with what its url answers when asked:
\* <<"error">> (the GET fails), <<"status">> (a non-success status),
\* <<"body_error">> (the body cannot be read) or <<"ok", body>>.
RemoteFileBlocker(response) ==
    [kind |-> "RemoteFileBlocker", list |-> <<>>, response |-> response]

\* fault: only the first entry of the list is compared
contains_first(list, x) == Len(list) > 0 /\ list[1] = x

\* Vec::contains
contains(list, x) == \E k \in 1..Len(list) : list[k] = x

RECURSIVE split(_, _)
\* slice::split: the pieces between the occurrences of sep, empty ones
\* included; an empty slice gives one empty piece
split(body, sep) ==
    IF \A k \in 1..Len(body) : body[k] # sep THEN << body >>
    ELSE LET k == CHOOSE k \in 1..Len(body) :
                      body[k] = sep /\ \A l \in 1..(k - 1) : body[l] # sep
         IN  << SubSeq(body, 1, k - 1) >> \o split(SubSeq(body, k + 1, Len(body)), sep)

RECURSIVE decode_lines_skip_bad(_)
\* fault: a line that does not decode is skipped instead of failing the list
decode_lines_skip_bad(lines) ==
    IF lines = <<>> THEN [ok |-> TRUE, seeds |-> <<>>]
    ELSE LET d == base64_decode(Head(lines))
             rest == decode_lines_skip_bad(Tail(lines))
         IN  IF ~d.ok THEN rest
             ELSE [ok |-> TRUE, seeds |-> << d.bytes >> \o rest.seeds]

RECURSIVE decode_lines(_)
\* the for loop of RemoteFileBlocker::check_block: the decoded lines, or
\* failure at the first line that does not decode
decode_lines(lines) ==
    IF lines = <<>> THEN [ok |-> TRUE, seeds |-> <<>>]
    ELSE LET d == base64_decode(Head(lines))
         IN  IF ~d.ok THEN [ok |-> FALSE, seeds |-> <<>>]
             ELSE LET rest == decode_lines(Tail(lines))
                  IN  IF ~rest.ok THEN rest
                      ELSE [ok |-> TRUE, seeds |-> << d.bytes >> \o rest.seeds]

\* Blocker::check_block: "Ok", or the BlockCheckError "Blocked" or "BadList"
check_block(blocker, seed) ==
    IF blocker.kind = "NoBlock" THEN "Ok"
    ELSE IF blocker.kind = "BuiltinBlocklist"
    THEN IF contains(blocker.list, seed) THEN "Blocked" ELSE "Ok"
    ELSE IF blocker.response[1] # "ok" THEN "BadList"
    ELSE LET seeds == decode_lines(split(blocker.response[2], 10))
         IN  IF ~seeds.ok THEN "BadList"
             ELSE IF contains(seeds.seeds, seed) THEN "Blocked"
             ELSE "Ok"

-----------------------------------------------------------------------------
(* gen.rs: AdminGenerator and the encoders                                 *)

RECURSIVE key_chunks(_, _, _)
\* the loop of generate_license: one chunk per IV, in order
key_chunks(ivs, seed, chunk_size) ==
    IF ivs = <<>> THEN <<>>
    ELSE << generate_key_chunk(Head(ivs), seed, chunk_size) >>
         \o key_chunks(Tail(ivs), seed, chunk_size)

\* fault: the checksum is computed over the payload alone
assemble_checksum_without_seed(seed, payload) ==
    IF \E i \in 1..Len(payload) : payload[i] = PANIC
    THEN [tag |-> "Panic", license |-> NoLicense]
    ELSE [tag |-> "Ok",
          license |-> [seed |-> seed, payload |-> payload,
                       checksum |-> generate_checksum(<<>>, payload)]]

\* the end of generate_license: the License of a seed and its payload; a
\* chunk that could not be sliced has panicked before
assemble(seed, payload) ==
    IF \E i \in 1..Len(payload) : payload[i] = PANIC
    THEN [tag |-> "Panic", license |-> NoLicense]
    ELSE [tag |-> "Ok",
          license |-> [seed |-> seed, payload |-> payload,
                       checksum |-> generate_checksum(seed, payload)]]

\* AdminGenerator::generate_license on the generator self
generate_license(self, seed) ==
    IF Len(seed) # self.parameters.seed_length
    THEN [tag |-> "InvalidSeedLen", license |-> NoLicense]
    ELSE assemble(seed, key_chunks(self.ivs, seed, self.parameters.chunk_size))

\* fault: the checksum is written before the payload
to_bytes_checksum_first(license) ==
    license.seed \o license.checksum \o concat(license.payload)

\* License::to_bytes
to_bytes(license) == license.seed \o concat(license.payload) \o license.checksum

RECURSIVE dashed_leading(_, _)
\* fault: the test i != 0 is left out, so the text starts with a '-'
dashed_leading(encoded, i) ==
    IF i >= Len(encoded) THEN <<>>
    ELSE (IF i % 4 = 0 THEN << 45 >> ELSE <<>>)
         \o << encoded[i + 1] >> \o dashed_leading(encoded, i + 1)

RECURSIVE dashed(_, _)
\* the loop of to_human_readable over the encoded characters from the
\* 0-based position i on
dashed(encoded, i) ==
    IF i >= Len(encoded) THEN <<>>
    ELSE (IF i % 4 = 0 /\ i # 0 THEN << 45 >> ELSE <<>>)
         \o << encoded[i + 1] >> \o dashed(encoded, i + 1)

\* License::to_human_readable
to_human_readable(license) == dashed(base64_encode(to_bytes(license)), 0)

-----------------------------------------------------------------------------
(* check.rs: the parsers and the verifier                                  *)

\* License::verify_checksum
verify_checksum(license) ==
    IF generate_checksum(license.seed, license.payload) = license.checksum
    THEN "Ok" ELSE "Err"

RECURSIVE chunks_from(_, _, _)
\* the while loop of from_license_bytes from the 0-based offset i on; the
\* slice og_payload[i..i + chunk_size] panics when it runs past the end
chunks_from(og_payload, i, chunk_size) ==
    IF ~(i < Len(og_payload)) THEN <<>>
    ELSE IF i + chunk_size > Len(og_payload) THEN << PANIC >>
    ELSE << SubSeq(og_payload, i + 1, i + chunk_size) >>
         \o chunks_from(og_payload, i + chunk_size, chunk_size)

\* fault: the expected length leaves CHECKSUM_LEN out
from_license_bytes_len_without_checksum(license_bytes, params) ==
    LET payload_len_in_bytes == params.payload_length * params.chunk_size
        should_len == params.seed_length + payload_len_in_bytes
    IN  IF Len(license_bytes) # should_len
        THEN [tag |-> "InvalidLength", license |-> NoLicense]
        ELSE LET og_payload == SubSeq(license_bytes, params.seed_length + 1,
                                      params.seed_length + payload_len_in_bytes)
             IN  [tag |-> "Ok",
                  license |->
                      [seed |-> SubSeq(license_bytes, 1, params.seed_length),
                       payload |-> chunks_from(og_payload, 0, params.chunk_size),
                       checksum |-> SubSeq(license_bytes,
                                           Len(license_bytes) - CHECKSUM_LEN + 1,
                                           Len(license_bytes))]]

\* License::from_license_bytes
from_license_bytes(license_bytes, params) ==
    LET payload_len_in_bytes == params.payload_length * params.chunk_size
        should_len == params.seed_length + payload_len_in_bytes + CHECKSUM_LEN
    IN  IF Len(license_bytes) # should_len
        THEN [tag |-> "InvalidLength", license |-> NoLicense]
        ELSE LET og_payload == SubSeq(license_bytes, params.seed_length + 1,
                                      params.seed_length + payload_len_in_bytes)
             IN  [tag |-> "Ok",
                  license |->
                      [seed |-> SubSeq(license_bytes, 1, params.seed_length),
                       payload |-> chunks_from(og_payload, 0, params.chunk_size),
                       checksum |-> SubSeq(license_bytes,
                                           Len(license_bytes) - CHECKSUM_LEN + 1,
                                           Len(license_bytes))]]

\* the filter of from_human_readable: every byte but '-'
RECURSIVE filtered(_)
filtered(readable) ==
    IF readable = <<>> THEN <<>>
    ELSE (IF Head(readable) # 45 THEN << Head(readable) >> ELSE <<>>)
         \o filtered(Tail(readable))

\* fault: the '-' separators are not filtered out before decoding
from_human_readable_keeps_dashes(readable, params) ==
    LET decoded == base64_decode(readable)
    IN  IF ~decoded.ok THEN [tag |-> "Base64DecodeError", license |-> NoLicense]
        ELSE LET p == from_license_bytes(decoded.bytes, params)
             IN  IF p.tag = "Ok" THEN p
                 ELSE [tag |-> "ParseBytesError", license |-> NoLicense]

\* License::from_human_readable
from_human_readable(readable, params) ==
    LET decoded == base64_decode(filtered(readable))
    IN  IF ~decoded.ok THEN [tag |-> "Base64DecodeError", license |-> NoLicense]
        ELSE LET p == from_license_bytes(decoded.bytes, params)
             IN  IF p.tag = "Ok" THEN p
                 ELSE [tag |-> "ParseBytesError", license |-> NoLicense]

\* what verify_license returns, and how many times it called check_block
Outcome(tag, err, calls) == [tag |-> tag, err |-> err, blocker_calls |-> calls]

\* fault: a blocker that cannot answer (BadList) lets the license through
compare_chunk_fail_open(license, info, blocker, chunk) ==
    IF chunk = PANIC THEN Outcome("Panic", "None", 0)
    ELSE IF license.payload[info.iv_index + 1] = chunk
    THEN LET e == check_block(blocker, license.seed)
         IN  IF e = "Blocked" THEN Outcome("LicenseBlocked", e, 1)
             ELSE Outcome("LicenseGood", "None", 1)
    ELSE Outcome("LicenseForged", "None", 0)

\* the end of verify_license, once the chunk of known_iv is derived
compare_chunk(license, info, blocker, chunk) ==
    IF chunk = PANIC THEN Outcome("Panic", "None", 0)
    ELSE IF license.payload[info.iv_index + 1] = chunk
    THEN LET e == check_block(blocker, license.seed)
         IN  IF e # "Ok" THEN Outcome("LicenseBlocked", e, 1)
             ELSE Outcome("LicenseGood", "None", 1)
    ELSE Outcome("LicenseForged", "None", 0)

\* fault: the index is looked up before the checksum is verified
verify_license_index_first(license, info, blocker) ==
    IF ~(info.iv_index < Len(license.payload))
    THEN Outcome("InvalidIVIndex", "None", 0)
    ELSE IF verify_checksum(license) # "Ok"
    THEN Outcome("ChecksumFailed", "None", 0)
    ELSE compare_chunk(license, info, blocker,
             generate_key_chunk(info.known_iv, license.seed,
                                Len(license.payload[info.iv_index + 1])))

\* fault: payload[iv_index] is indexed without the range check of get
verify_license_indexing(license, info, blocker) ==
    IF verify_checksum(license) # "Ok" THEN Outcome("ChecksumFailed", "None", 0)
    ELSE IF ~(info.iv_index < Len(license.payload))
    THEN Outcome("Panic", "None", 0)
    ELSE compare_chunk(license, info, blocker,
             generate_key_chunk(info.known_iv, license.seed,
                                Len(license.payload[info.iv_index + 1])))

\* fault: the blocker is asked before the license is authenticated
verify_license_blocker_first(license, info, blocker) ==
    IF check_block(blocker, license.seed) # "Ok"
    THEN Outcome("LicenseBlocked", check_block(blocker, license.seed), 1)
    ELSE IF verify_checksum(license) # "Ok"
    THEN Outcome("ChecksumFailed", "None", 1)
    ELSE IF ~(info.iv_index < Len(license.payload))
    THEN Outcome("InvalidIVIndex", "None", 1)
    ELSE IF license.payload[info.iv_index + 1]
                = generate_key_chunk(info.known_iv, license.seed,
                                     Len(license.payload[info.iv_index + 1]))
    THEN Outcome("LicenseGood", "None", 1)
    ELSE Outcome("LicenseForged", "None", 1)

\* check::verify_license
verify_license(license, info, blocker) ==
    IF verify_checksum(license) # "Ok" THEN Outcome("ChecksumFailed", "None", 0)
    ELSE IF ~(info.iv_index < Len(license.payload))
    THEN Outcome("InvalidIVIndex", "None", 0)
    ELSE compare_chunk(license, info, blocker,
             generate_key_chunk(info.known_iv, license.seed,
                                Len(license.payload[info.iv_index + 1])))

-----------------------------------------------------------------------------
(* Bounds and input sets                                                   *)

\* the largest seed_length
MaxSeedLen == 2

\* the largest payload_length, in chunks
MaxPayloadLen == 2

\* the largest chunk_size below the digest length
MaxChunkSize == 2

\* the largest amount added to a payload byte
MaxDelta == 2

\* the longest raw input to from_license_bytes
MaxInputLen == 9

\* chunk sizes: the small ones and the first one past the digest length
ChunkSizes == (1..MaxChunkSize) \cup {SHA256_OUTPUT_LEN + 1}

\* LicenseStructParameters with every field > 0
ParamSets ==
    [seed_length : 1..MaxSeedLen, payload_length : 1..MaxPayloadLen,
     chunk_size : ChunkSizes]

\* IV lengths new_with_random_ivs draws: gen_range(1..10) in lib.rs,
\* gen_range(10..16) in gen.rs
IvLengths == 1..15

\* IVs the random source may draw: the known_iv of the crate's doc example
\* and a ten-byte one
IVPool ==
    { <<43, 194, 247, 127, 168, 171, 16>>,
      <<182, 34, 7, 201, 90, 13, 250, 6, 123, 96>> }

\* seeds handed to generate_license, bytes of the doc example's seed
SeedInputs == { <<5>>, <<100>>, <<5, 100>> }

\* blocklists baked into a BuiltinBlocklist
Blocklists == { << <<5>> >>, << <<100, 5>>, <<5, 100>>, <<100>> >> }

\* answers of the remote blocklist url: the GET fails, or the body "BQ"
\* (one line, base64 of the seed <<5>>)
RemoteResponses == { <<"error">>, <<"ok", <<66, 81>> >> }

\* bodies a blocklist url may serve: "", "BQ", "BQ\n", "ZA\nBQ", "BWQ\nZA",
\* "BQ\nB", "B\nBQ", "BQ\n!\nZA", "BQ==", "BQ\r\nZA", "BR" ("BQ", "ZA" and
\* "BWQ" are the base64 of the seeds <<5>>, <<100>> and <<5, 100>>)
RemoteBodies ==
    { <<>>, <<66, 81>>, <<66, 81, 10>>, <<90, 65, 10, 66, 81>>,
      <<66, 87, 81, 10, 90, 65>>, <<66, 81, 10, 66>>, <<66, 10, 66, 81>>,
      <<66, 81, 10, 33, 10, 90, 65>>, <<66, 81, 61, 61>>,
      <<66, 81, 13, 10, 90, 65>>, <<66, 82>> }

\* RemoteFileBlockers with every answer their url may give
RemoteBlockers ==
    { RemoteFileBlocker(r) :
        r \in { <<"error">>, <<"status">>, <<"body_error">> }
              \cup { <<"ok", body>> : body \in RemoteBodies } }

Blockers ==
    {NoBlock} \cup {BuiltinBlocklist(l) : l \in Blocklists}
    \cup {RemoteFileBlocker(r) : r \in RemoteResponses}

\* one blocker for each way check_block can answer: always Ok, Blocked for
\* the listed seeds, BadList
OrderBlockers ==
    { NoBlock, BuiltinBlocklist(<< <<100, 5>>, <<5, 100>>, <<100>> >>),
      RemoteFileBlocker(<<"error">>) }

\* LicenseCheckInfo values a client may embed
CheckInfos == [known_iv : IVPool, iv_index : 0..MaxPayloadLen]

\* byte strings of length n used for hand-made licenses and raw input
ByteStrings(n) == { [i \in 1..n |-> (b + 85 * (i - 1)) % 256] : b \in {0, 100, 251} }

\* Licenses valid under params, as the pub fields allow building them
ValidLicenses(params) ==
    [seed : ByteStrings(params.seed_length),
     payload : [1..params.payload_length -> ByteStrings(params.chunk_size)],
     checksum : ByteStrings(CHECKSUM_LEN)]

\* raw input to from_license_bytes
ByteInputs == UNION { ByteStrings(n) : n \in 0..MaxInputLen }

\* text input to from_human_readable: "AAAA-AA", "AAAAAA", "BWQq-RQ",
\* "B", "BR", "AA==", "A A", "", "-"
TextInputs ==
    { <<65, 65, 65, 65, 45, 65, 65>>, <<65, 65, 65, 65, 65, 65>>,
      <<66, 87, 81, 113, 45, 82, 81>>, <<66>>, <<66, 82>>,
      <<65, 65, 61, 61>>, <<65, 32, 65>>, <<>>, <<45>> }

-----------------------------------------------------------------------------
(* State                                                                   *)

VARIABLES
    parameters,  \* the LicenseStructParameters issuer and client share
    ivs,         \* AdminGenerator.ivs, <<>> before the generator exists
    pc,          \* how far the run got
    gen,         \* the generate_license call made: its seed and its return
    license,     \* the License in hand
    flip,        \* <<i, j, d>> once payload[i][j] was changed by d, else <<>>
    call,        \* the verify call made: its arguments and its return
    bytes,       \* the byte string in hand
    text,        \* the text in hand
    parsed       \* the parse call made and its return

vars == << parameters, ivs, pc, gen, license, flip, call, bytes, text, parsed >>

NoInfo == [known_iv |-> <<>>, iv_index |-> 0]

NoCall == [op |-> "none", info |-> NoInfo, blocker |-> NoBlock,
           ret |-> Outcome("None", "None", 0)]

Init ==
    /\ parameters \in ParamSets
    /\ ivs = <<>>
    /\ pc = "start"
    /\ gen = [seed |-> <<>>, ret |-> [tag |-> "None", license |-> NoLicense]]
    /\ license = NoLicense
    /\ flip = <<>>
    /\ call = NoCall
    /\ bytes = <<>>
    /\ text = <<>>
    /\ parsed = [op |-> "none", tag |-> "None", license |-> NoLicense]

-----------------------------------------------------------------------------
(* Operations                                                              *)

\* AdminGenerator::new_with_random_ivs(parameters): payload_length IVs of
\* random bytes
NewWithRandomIvs ==
    /\ pc = "start"
    /\ ivs' \in { v \in [1..parameters.payload_length -> IVPool] :
                    \A i \in 1..Len(v) : Len(v[i]) \in IvLengths }
    /\ pc' = "issuer"
    /\ UNCHANGED << parameters, gen, license, flip, call, bytes, text, parsed >>

\* generator.generate_license(seed)
GenerateLicense(seed) ==
    /\ pc = "issuer"
    /\ gen' = [seed |-> seed,
               ret |-> generate_license([parameters |-> parameters, ivs |-> ivs], seed)]
    /\ license' = gen'.ret.license
    /\ pc' = IF gen'.ret.tag = "Ok" THEN "issued" ELSE "failed"
    /\ UNCHANGED << parameters, ivs, flip, call, bytes, text, parsed >>

\* a License put together field by field (the fields are pub)
ConstructLicense(l) ==
    /\ pc = "start"
    /\ license' = l
    /\ pc' = "issued"
    /\ UNCHANGED << parameters, ivs, gen, flip, call, bytes, text, parsed >>

\* license.payload[i][j] += d, as tests::checksum_detects_invalid does
\* with i = j = 0 and d = 1 (indices here count from 1)
Tamper(i, j, d) ==
    /\ pc = "issued"
    /\ flip = <<>>
    /\ i \in 1..Len(license.payload)
    /\ j \in 1..Len(license.payload[i])
    /\ license' = [license EXCEPT !.payload[i][j] = (@ + d) % 256]
    /\ flip' = <<i, j, d>>
    /\ UNCHANGED << parameters, ivs, pc, gen, call, bytes, text, parsed >>

\* verify_license(license, info, blocker)
VerifyLicense(info, blocker) ==
    /\ pc = "issued"
    /\ call' = [op |-> "verify_license", info |-> info, blocker |-> blocker,
                ret |-> verify_license(license, info, blocker)]
    /\ pc' = "verified"
    /\ UNCHANGED << parameters, ivs, gen, license, flip, bytes, text, parsed >>

\* license.verify_checksum()
VerifyChecksum ==
    /\ pc = "issued"
    /\ call' = [op |-> "verify_checksum", info |-> NoInfo, blocker |-> NoBlock,
                ret |-> Outcome(verify_checksum(license), "None", 0)]
    /\ pc' = "verified"
    /\ UNCHANGED << parameters, ivs, gen, license, flip, bytes, text, parsed >>

\* blocker.check_block(seed), called on its own
CheckBlock(blocker, seed) ==
    /\ pc = "start"
    /\ bytes' = seed
    /\ call' = [op |-> "check_block", info |-> NoInfo, blocker |-> blocker,
                ret |-> Outcome(check_block(blocker, seed), "None", 1)]
    /\ pc' = "verified"
    /\ UNCHANGED << parameters, ivs, gen, license, flip, text, parsed >>

\* license.to_bytes()
ToBytes ==
    /\ pc = "issued"
    /\ bytes' = to_bytes(license)
    /\ pc' = "bytes"
    /\ UNCHANGED << parameters, ivs, gen, license, flip, call, text, parsed >>

\* license.to_human_readable()
ToHumanReadable ==
    /\ pc = "issued"
    /\ text' = to_human_readable(license)
    /\ pc' = "text"
    /\ UNCHANGED << parameters, ivs, gen, license, flip, call, bytes, parsed >>

\* bytes that did not come from to_bytes reach the client
ReceiveBytes(b) ==
    /\ pc = "start"
    /\ bytes' = b
    /\ pc' = "bytes"
    /\ UNCHANGED << parameters, ivs, gen, license, flip, call, text, parsed >>

\* text that did not come from to_human_readable reaches the client
ReceiveText(t) ==
    /\ pc = "start"
    /\ text' = t
    /\ pc' = "text"
    /\ UNCHANGED << parameters, ivs, gen, license, flip, call, bytes, parsed >>

\* License::from_license_bytes(bytes, parameters)
FromLicenseBytes ==
    /\ pc = "bytes"
    /\ LET r == from_license_bytes(bytes, parameters)
       IN  parsed' = [op |-> "from_license_bytes", tag |-> r.tag,
                      license |-> r.license]
    /\ pc' = "parsed"
    /\ UNCHANGED << parameters, ivs, gen, license, flip, call, bytes, text >>

\* License::from_human_readable(text, parameters)
FromHumanReadable ==
    /\ pc = "text"
    /\ LET r == from_human_readable(text, parameters)
       IN  parsed' = [op |-> "from_human_readable", tag |-> r.tag,
                      license |-> r.license]
    /\ pc' = "parsed"
    /\ UNCHANGED << parameters, ivs, gen, license, flip, call, bytes, text >>

-----------------------------------------------------------------------------
(* Specifications                                                          *)

\* issuing and verifying: a license is generated and verified once
Next ==
    \/ NewWithRandomIvs
    \/ \E seed \in SeedInputs : GenerateLicense(seed)
    \/ \E info \in CheckInfos, blocker \in Blockers : VerifyLicense(info, blocker)
    \/ VerifyChecksum

Spec == Init /\ [][Next]_vars

\* a generated license is altered the way the crate's test alters it
\* (payload[0][0] += 1) and then verified
NextAltered ==
    \/ NewWithRandomIvs
    \/ \E seed \in SeedInputs : GenerateLicense(seed)
    \/ Tamper(1, 1, 1)
    \/ /\ flip # <<>>
       /\ \E info \in CheckInfos, blocker \in Blockers : VerifyLicense(info, blocker)

SpecAltered == Init /\ [][NextAltered]_vars

\* a generated license, as issued or altered as above, is verified once
NextOrder ==
    \/ NewWithRandomIvs
    \/ \E seed \in SeedInputs : GenerateLicense(seed)
    \/ Tamper(1, 1, 1)
    \/ \E info \in CheckInfos, blocker \in OrderBlockers :
           VerifyLicense(info, blocker)

SpecOrder == Init /\ [][NextOrder]_vars

\* altering any one payload byte, then checking the checksum
NextTamper ==
    \/ NewWithRandomIvs
    \/ \E seed \in SeedInputs : GenerateLicense(seed)
    \/ \E i \in 1..MaxPayloadLen, j \in 1..MaxChunkSize, d \in 1..MaxDelta :
           Tamper(i, j, d)
    \/ VerifyChecksum

SpecTamper == Init /\ [][NextTamper]_vars

\* a blocker asked about a seed
NextBlock ==
    \E blocker \in Blockers \cup RemoteBlockers, seed \in SeedInputs :
        CheckBlock(blocker, seed)

SpecBlock == Init /\ [][NextBlock]_vars

\* the codec: licenses and raw input through the encoders and parsers
NextCodec ==
    \/ NewWithRandomIvs
    \/ \E seed \in SeedInputs : GenerateLicense(seed)
    \/ \E l \in ValidLicenses(parameters) : ConstructLicense(l)
    \/ \E b \in ByteInputs : ReceiveBytes(b)
    \/ \E t \in TextInputs : ReceiveText(t)
    \/ ToBytes
    \/ ToHumanReadable
    \/ FromLicenseBytes
    \/ FromHumanReadable

SpecCodec == Init /\ [][NextCodec]_vars

-----------------------------------------------------------------------------
(* Properties of verify_license                                            *)

\* a verify_license call has returned
Verified == pc = "verified" /\ call.op = "verify_license"

\* iv_index names a chunk of the payload
InRange == call.info.iv_index < Len(license.payload)

\* the call was made on the license as generated, with the generator's IV
\* of the index it names
CorrectIv ==
    /\ Verified
    /\ flip = <<>>
    /\ InRange
    /\ call.info.known_iv = ivs[call.info.iv_index + 1]

\* the call was made on the license as generated, with another IV than the
\* generator's at the index it names
WrongIv ==
    /\ Verified
    /\ flip = <<>>
    /\ InRange
    /\ call.info.known_iv # ivs[call.info.iv_index + 1]

\* generate_license was called with a seed of seed_length bytes
SeedFits == gen.ret.tag # "None" /\ Len(gen.seed) = parameters.seed_length

\* C1 as amended: for every parameter set with all fields > 0 and chunk_size
\* at most the digest length (32), and every seed of seed_length bytes,
\* generate_license returns a license, and verify_license on it with
\* known_iv = ivs[i], iv_index = i < payload_length and NoBlock returns
\* LicenseGood.
C1_LicenseGood ==
    /\ (SeedFits /\ parameters.chunk_size <= SHA256_OUTPUT_LEN) => gen.ret.tag = "Ok"
    /\ (CorrectIv /\ call.blocker = NoBlock) => call.ret.tag = "LicenseGood"

C1_Witness ==
    /\ CorrectIv
    /\ call.blocker = NoBlock
    /\ call.info.iv_index = 1
    /\ parameters.chunk_size = 2
    /\ call.ret.tag = "LicenseGood"

\* C1 as stated: for every parameter set with all three fields > 0 and every
\* seed of seed_length bytes, generate_license returns a license on which
\* verify_license with the correct IV, its index and NoBlock returns
\* LicenseGood.
C1_AsStated ==
    /\ SeedFits => gen.ret.tag = "Ok"
    /\ (CorrectIv /\ call.blocker = NoBlock) => call.ret.tag = "LicenseGood"

BadChecksum ==
    generate_checksum(license.seed, license.payload) # license.checksum

\* C3: verify_license decides by the first failing step in the order
\* checksum, index range, chunk match, blocker: a license whose stored
\* checksum differs from the recomputed one yields ChecksumFailed whatever
\* iv_index (in range or not), known_iv and blocker are; InvalidIVIndex
\* is returned only for an out-of-range index, and the chunk match and the
\* blocker decide only for an index in range.
C3_ChecksumFirst ==
    Verified =>
        /\ BadChecksum => call.ret.tag = "ChecksumFailed"
        /\ call.ret.tag = "InvalidIVIndex" => ~InRange
        /\ call.ret.tag \in {"LicenseForged", "LicenseGood", "LicenseBlocked"}
               => InRange

C3_Witness ==
    /\ Verified
    /\ flip = <<1, 1, 1>>
    /\ ~InRange
    /\ call.blocker.kind = "RemoteFileBlocker"
    /\ call.ret.tag = "ChecksumFailed"

\* C4: for a license with a correct checksum, verify_license with
\* iv_index >= the number of payload chunks returns InvalidIVIndex,
\* whatever known_iv and the blocker are, and does not panic on the index.
C4_InvalidIVIndex ==
    (Verified /\ flip = <<>> /\ ~InRange) => call.ret.tag = "InvalidIVIndex"

C4_Witness ==
    /\ Verified
    /\ flip = <<>>
    /\ call.info.iv_index = Len(license.payload)
    /\ call.blocker.kind = "BuiltinBlocklist"
    /\ call.ret.tag = "InvalidIVIndex"

\* the seed is byte for byte an entry of the BuiltinBlocklist of the call
SeedListed ==
    \E k \in 1..Len(call.blocker.list) : call.blocker.list[k] = license.seed

\* C5: with a BuiltinBlocklist and an otherwise valid license,
\* verify_license returns LicenseBlocked(Blocked) exactly when the seed is
\* byte for byte an entry of the list, and LicenseGood for every other
\* seed.
C5_BuiltinBlocklist ==
    (Verified /\ call.blocker.kind = "BuiltinBlocklist") =>
        /\ CorrectIv =>
               IF SeedListed
               THEN call.ret.tag = "LicenseBlocked" /\ call.ret.err = "Blocked"
               ELSE call.ret.tag = "LicenseGood"
        /\ call.ret.tag = "LicenseBlocked" => call.ret.err = "Blocked" /\ SeedListed
        /\ call.ret.tag = "LicenseGood" => ~SeedListed

C5_Witness ==
    /\ CorrectIv
    /\ call.blocker.kind = "BuiltinBlocklist"
    /\ Len(call.blocker.list) > 1
    /\ call.blocker.list[1] # license.seed
    /\ call.ret.tag = "LicenseBlocked"

\* C6: when check_block returns BadList for an otherwise valid license,
\* verify_license does not return LicenseGood: it returns
\* LicenseBlocked(BadList), a value other than LicenseGood and other than
\* the LicenseBlocked(Blocked) of a blocked seed.
C6_BadList ==
    (CorrectIv /\ check_block(call.blocker, license.seed) = "BadList") =>
        /\ call.ret.tag = "LicenseBlocked"
        /\ call.ret.err = "BadList"
        /\ call.ret # Outcome("LicenseGood", "None", 1)
        /\ call.ret # Outcome("LicenseBlocked", "Blocked", 1)

C6_Witness ==
    /\ CorrectIv
    /\ call.blocker = RemoteFileBlocker(<<"error">>)
    /\ call.ret = Outcome("LicenseBlocked", "BadList", 1)

-----------------------------------------------------------------------------
(* Properties of verify_checksum                                           *)

\* verify_checksum has returned for a generated license with one payload
\* byte changed, seed and checksum as generated
Tampered ==
    /\ pc = "verified"
    /\ call.op = "verify_checksum"
    /\ flip # <<>>
    /\ license.seed = gen.ret.license.seed
    /\ license.checksum = gen.ret.license.checksum
    /\ license.payload # gen.ret.license.payload

-----------------------------------------------------------------------------
(* Properties of the codec                                                 *)

\* from_license_bytes has returned for the to_bytes of a generated license
GeneratedRoundTrip ==
    /\ pc = "parsed"
    /\ parsed.op = "from_license_bytes"
    /\ gen.ret.tag = "Ok"

\* C8 as amended: for every parameter set with all fields > 0 and
\* chunk_size at most the digest length (32), and every seed of
\* seed_length bytes, generate_license returns a license L and
\* from_license_bytes(to_bytes(L), params) succeeds with a License equal
\* to L in seed, payload chunks in order, and checksum.
C8_RoundTrip ==
    /\ (SeedFits /\ parameters.chunk_size <= SHA256_OUTPUT_LEN) => gen.ret.tag = "Ok"
    /\ GeneratedRoundTrip =>
           /\ parsed.tag = "Ok"
           /\ parsed.license.seed = gen.seed
           /\ parsed.license.payload = gen.ret.license.payload
           /\ parsed.license.checksum = gen.ret.license.checksum

C8_Witness ==
    /\ GeneratedRoundTrip
    /\ parameters.payload_length = 2
    /\ parameters.chunk_size = 2
    /\ parsed.tag = "Ok"
    /\ parsed.license = gen.ret.license

\* C8 as stated: for every parameter set with all fields > 0 and every seed
\* of seed_length bytes, from_license_bytes(to_bytes(generate_license(seed)))
\* succeeds and equals generate_license(seed).
C8_AsStated ==
    /\ SeedFits => gen.ret.tag = "Ok"
    /\ GeneratedRoundTrip => parsed.tag = "Ok" /\ parsed.license = gen.ret.license

\* license is valid under parameters
ValidUnder ==
    /\ Len(license.seed) = parameters.seed_length
    /\ Len(license.payload) = parameters.payload_length
    /\ \A k \in 1..Len(license.payload) :
           Len(license.payload[k]) = parameters.chunk_size
    /\ Len(license.checksum) = CHECKSUM_LEN

\* C9: for every License L valid under params,
\* from_human_readable(to_human_readable(L), params) succeeds and equals L.
C9_HumanReadableRoundTrip ==
    (pc = "parsed" /\ parsed.op = "from_human_readable" /\ ValidUnder) =>
        parsed.tag = "Ok" /\ parsed.license = license

C9_Witness ==
    /\ pc = "parsed"
    /\ parsed.op = "from_human_readable"
    /\ ValidUnder
    /\ gen.ret.tag = "None"
    /\ \E i \in 1..Len(text) : text[i] = 45
    /\ parsed.license = license

\* the length from_license_bytes accepts
ShouldLen ==
    parameters.seed_length + parameters.payload_length * parameters.chunk_size + 2

\* C10: from_license_bytes returns InvalidLength exactly when the input
\* length differs from seed_length + payload_length * chunk_size + 2; an
\* input of that length parses, whatever its bytes, into the first
\* seed_length bytes as seed, payload_length chunks of chunk_size bytes in
\* input order, and the last 2 bytes as checksum.
C10_Slicing ==
    (pc = "parsed" /\ parsed.op = "from_license_bytes") =>
        IF Len(bytes) # ShouldLen
        THEN parsed.tag = "InvalidLength"
        ELSE /\ parsed.tag = "Ok"
             /\ parsed.license.seed = SubSeq(bytes, 1, parameters.seed_length)
             /\ Len(parsed.license.payload) = parameters.payload_length
             /\ \A k \in 1..parameters.payload_length :
                    parsed.license.payload[k]
                        = SubSeq(bytes,
                                 parameters.seed_length
                                     + (k - 1) * parameters.chunk_size + 1,
                                 parameters.seed_length
                                     + k * parameters.chunk_size)
             /\ parsed.license.checksum = SubSeq(bytes, Len(bytes) - 1, Len(bytes))

C10_Witness ==
    /\ pc = "parsed"
    /\ parsed.op = "from_license_bytes"
    /\ license = NoLicense
    /\ Len(bytes) = ShouldLen
    /\ parameters.payload_length = 2
    /\ parsed.tag = "Ok"
    /\ ~(generate_checksum(parsed.license.seed, parsed.license.payload)
             = parsed.license.checksum)

-----------------------------------------------------------------------------
(* Properties of RemoteFileBlocker                                         *)

\* check_block has returned for a RemoteFileBlocker asked about bytes
RemoteCall ==
    /\ pc = "verified"
    /\ call.op = "check_block"
    /\ call.blocker.kind = "RemoteFileBlocker"

\* the newline-separated lines of the body served
BodyLines == split(call.blocker.response[2], 10)

\* the url served a body
BodyServed == call.blocker.response[1] = "ok"

\* some line of the body is not unpadded base64
SomeLineBad ==
    \E k \in 1..Len(BodyLines) : ~base64_decode(BodyLines[k]).ok

\* the seed asked about is what some line of the body decodes to
SeedOnLine ==
    \E k \in 1..Len(BodyLines) :
        /\ base64_decode(BodyLines[k]).ok
        /\ base64_decode(BodyLines[k]).bytes = bytes

\* C11: RemoteFileBlocker.check_block is all or nothing: when the fetch
\* fails, the status is non-success, the body cannot be read or any
\* newline-separated line fails to base64-decode, the result is BadList,
\* even when the seed is on a well-formed line of the same body; only when
\* every line decodes is the result Blocked for a seed among the decoded
\* lines and Ok otherwise.
C11_AllOrNothing ==
    RemoteCall =>
        IF ~BodyServed \/ SomeLineBad THEN call.ret.tag = "BadList"
        ELSE IF SeedOnLine THEN call.ret.tag = "Blocked"
        ELSE call.ret.tag = "Ok"

C11_Witness ==
    /\ RemoteCall
    /\ BodyServed
    /\ SomeLineBad
    /\ SeedOnLine
    /\ call.ret.tag = "BadList"

-----------------------------------------------------------------------------
(* Properties of to_human_readable                                         *)

\* text is what to_human_readable returned for license
TextOfLicense == pc \in {"text", "parsed"} /\ text # <<>> /\ ValidUnder

\* the unpadded base64 encoding of to_bytes(license)
Encoded == base64_encode(to_bytes(license))

\* a character other than '-'
NotDash(c) == c # 45

\* C12 as amended: the text returned by to_human_readable is the unpadded
\* base64 encoding of to_bytes(L) with a '-' inserted after every 4th
\* encoded character that has a character after it (after characters 4, 8,
\* 12, ... but not after the last one), so never before the first
\* character and never at the end; removing every '-' gives back exactly
\* the base64 encoding.
C12_DashBetweenGroups ==
    TextOfLicense =>
        /\ Len(text) = Len(Encoded) + ((Len(Encoded) - 1) \div 4)
        /\ \A j \in 1..Len(text) :
               text[j] = IF j % 5 = 0 THEN 45 ELSE Encoded[j - (j \div 5)]
        /\ SelectSeq(text, NotDash) = Encoded

C12_Witness ==
    /\ TextOfLicense
    /\ Len(Encoded) = 8
    /\ Len(text) = 9
    /\ text[5] = 45
    /\ text[1] # 45
    /\ text[9] # 45

\* C12 as stated: the text is the unpadded base64 encoding of to_bytes(L)
\* with a '-' inserted after every 4th encoded character (after characters
\* 4, 8, 12, ...), never before the first character; removing every '-'
\* gives back exactly the base64 encoding.
C12_AsStated ==
    TextOfLicense =>
        /\ Len(text) = Len(Encoded) + (Len(Encoded) \div 4)
        /\ \A j \in 1..Len(text) :
               text[j] = IF j % 5 = 0 THEN 45 ELSE Encoded[j - (j \div 5)]
        /\ SelectSeq(text, NotDash) = Encoded

-----------------------------------------------------------------------------
(* The place of the blocker in verify_license                              *)

\* the chunk iv_index names is the one known_iv derives from the seed
ChunkMatches ==
    SubSeq(SHA256(call.info.known_iv \o license.seed), 1,
           Len(license.payload[call.info.iv_index + 1]))
        = license.payload[call.info.iv_index + 1]

\* C13: in every execution of verify_license, check_block is invoked at
\* most once, and only after the checksum check, the index-range check and
\* the derived-chunk comparison have all passed; it is not invoked for a
\* license that results in ChecksumFailed, InvalidIVIndex or LicenseForged.
C13_BlockerLast ==
    Verified =>
        /\ call.ret.blocker_calls \in {0, 1}
        /\ call.ret.blocker_calls = 1
               => (~BadChecksum /\ InRange /\ ChunkMatches)
        /\ call.ret.tag \in {"ChecksumFailed", "InvalidIVIndex", "LicenseForged"}
               => call.ret.blocker_calls = 0

C13_Witness ==
    /\ Verified
    /\ call.blocker.kind = "BuiltinBlocklist"
    /\ call.info.iv_index = 1
    /\ call.ret = Outcome("LicenseBlocked", "Blocked", 1)

=============================================================================
